---- MODULE Spec2Model ----
(***************************************************************************)
(* Trade quote aggregation, active-route selection and lock, and per-hop   *)
(* trade execution of the swapper core.                                    *)
(*                                                                         *)
(* state/slices/tradeQuoteSlice/selectors.ts : the selectors               *)
(* MultiHopTradeConfirm/hooks/useTradeExecution.tsx : executeTrade         *)
(*                                                                         *)
(* The reducers of tradeQuoteSlice, the helpers sortTradeQuotes and        *)
(* getActiveQuoteMetaOrDefault and the TradeExecution event source are     *)
(* modelled from the specification text.                                   *)
(***************************************************************************)
EXTENDS Integers, Sequences, FiniteSets, TLC

VARIABLES
    tradeQuotes,        \* tradeQuoteSlice.tradeQuotes : swapper -> set of ApiQuote
    activeQuoteMeta,    \* tradeQuoteSlice.activeQuoteMeta
    confirmedQuote,     \* tradeQuoteSlice.confirmedQuote
    featureFlags,       \* set of swappers the feature flags enable
    inputSellAmount,    \* tradeInput: sell amount, crypto base units
    tradeExecution,     \* tradeQuoteSlice.tradeExecution : hop index -> swap metadata
    run,                \* one executeTrade invocation per hop index
    hook,               \* useTradeExecution(hopIndex): mounted, cancelPollingRef, cleanup
    fetch,              \* the quote request in force and the responses in flight
    wallet,             \* what the request check reads: connection, chains, balance
    calc                \* a call of a pure function: its arguments and its result

vars == <<tradeQuotes, activeQuoteMeta, confirmedQuote, featureFlags,
          inputSellAmount, tradeExecution, run, hook, fetch, wallet, calc>>

quoteVars == <<tradeQuotes, activeQuoteMeta, confirmedQuote>>
inputVars == <<featureFlags, inputSellAmount, wallet, calc>>
execVars  == <<tradeExecution, run, hook>>

-----------------------------------------------------------------------------
(* Bounds of the model *)

MaxAmount == 2      \* buy amounts after fees, common currency: 1..MaxAmount
MaxTime == 2        \* estimated execution times: 1..MaxTime

-----------------------------------------------------------------------------
(* Values *)

\* SwapperName in its enumeration order
SwapperName == <<"CowSwap", "ArbitrumBridge", "Thorchain">>

Swappers == {SwapperName[i] : i \in 1..Len(SwapperName)}

SwapperIndex(s) == CHOOSE i \in 1..Len(SwapperName) : SwapperName[i] = s

\* identifiers of responses that hold a quote, and of error-only responses
QuoteIds == {"q1", "q2"}
ErrorIds == {"e1"}

\* undefined, for a TradeQuote and for an ActiveQuoteMeta
NoQuote == [id |-> "", source |-> "", buyAmountAfterFees |-> 0, networkFee |-> 0,
            estimatedExecutionTime |-> 0, nSteps |-> 0]
NoMeta == [swapperName |-> "", identifier |-> ""]

\* TradeQuote: steps[].source is the swapper, nSteps = steps.length
TradeQuote(s, id, buy, fee, time, n) ==
    [id |-> id, source |-> s, buyAmountAfterFees |-> buy, networkFee |-> fee,
     estimatedExecutionTime |-> time, nSteps |-> n]

\* ApiQuote: { id, swapperName, quote, errors }
ApiQuote(s, id, quote, errors) ==
    [id |-> id, swapperName |-> s, quote |-> quote, errors |-> errors,
     warnings |-> {}]

NoApiQuote == ApiQuote("", "", NoQuote, {})

\* the quotes a swapper can answer with
TradeQuotesOf(s, times, steps) ==
    {TradeQuote(s, id, buy, 0, time, n) :
        id \in QuoteIds, buy \in 1..MaxAmount, time \in times, n \in steps}

\* the responses of swapper s: no entry, one quote, or one error-only entry
ResponsesOf(s, times, steps) ==
    {{}}
    \cup {{ApiQuote(s, q.id, q, {})} : q \in TradeQuotesOf(s, times, steps)}
    \cup {{ApiQuote(s, id, NoQuote, {e})} : id \in ErrorIds, e \in {"UnsupportedTradePair"}}

-----------------------------------------------------------------------------
(* Ranking *)

EffectiveReceivedValue(q) == q.buyAmountAfterFees - q.networkFee

\* variant: equal value and time are not told apart by the swapper
RanksBefore_NoSwapperOrder(a, b) ==
    LET va == EffectiveReceivedValue(a.quote)
        vb == EffectiveReceivedValue(b.quote)
        ta == a.quote.estimatedExecutionTime
        tb == b.quote.estimatedExecutionTime
    IN  \/ va > vb
        \/ va = vb /\ ta < tb

\* a ranks strictly before b
RanksBefore(a, b) ==
    LET va == EffectiveReceivedValue(a.quote)
        vb == EffectiveReceivedValue(b.quote)
        ta == a.quote.estimatedExecutionTime
        tb == b.quote.estimatedExecutionTime
        ia == SwapperIndex(a.swapperName)
        ib == SwapperIndex(b.swapperName)
    IN  \/ va > vb
        \/ va = vb /\ ta < tb
        \/ va = vb /\ ta = tb /\ ia < ib
        \/ va = vb /\ ta = tb /\ ia = ib /\ a.id \in QuoteIds /\ b.id \in QuoteIds
           /\ a.id = "q1" /\ b.id = "q2"

RECURSIVE SortBy(_)
SortBy(S) ==
    IF S = {} THEN <<>>
    ELSE LET first == CHOOSE a \in S : \A b \in S \ {a} : RanksBefore(a, b)
         IN  <<first>> \o SortBy(S \ {first})

\* all entries of all responses
AllApiQuotes(quotes) == UNION {quotes[s] : s \in DOMAIN quotes}

sortTradeQuotes(quotes) ==
    SortBy({a \in AllApiQuotes(quotes) : a.quote # NoQuote})

getActiveQuoteMetaOrDefault(meta, sortedQuotes) ==
    LET resolves == \E i \in 1..Len(sortedQuotes) :
                        /\ sortedQuotes[i].swapperName = meta.swapperName
                        /\ sortedQuotes[i].id = meta.identifier
        bestQuoteMeta == IF Len(sortedQuotes) > 0
                         THEN [swapperName |-> sortedQuotes[1].swapperName,
                               identifier |-> sortedQuotes[1].id]
                         ELSE NoMeta
    IN  IF meta # NoMeta /\ resolves THEN meta ELSE bestQuoteMeta

-----------------------------------------------------------------------------
(* Selectors *)

\* tradeQuotes[swapperName]?.[identifier]
Lookup(quotes, swapperName, identifier) ==
    IF swapperName \in DOMAIN quotes
       /\ \E a \in quotes[swapperName] : a.id = identifier
    THEN CHOOSE a \in quotes[swapperName] : a.id = identifier
    ELSE NoApiQuote

selectSortedTradeQuotes == sortTradeQuotes(tradeQuotes)

selectConfirmedQuote == confirmedQuote

\* variant: the selection of the user is not passed on
selectActiveQuoteMetaOrDefault_NoPin ==
    getActiveQuoteMetaOrDefault(NoMeta, selectSortedTradeQuotes)

selectActiveQuoteMetaOrDefault ==
    getActiveQuoteMetaOrDefault(activeQuoteMeta, selectSortedTradeQuotes)

selectActiveSwapperName ==
    LET meta == selectActiveQuoteMetaOrDefault
    IN  IF meta = NoMeta THEN ""
        ELSE IF Lookup(tradeQuotes, meta.swapperName, meta.identifier) # NoApiQuote
             THEN meta.swapperName
             ELSE ""

\* variant: reads the raw activeQuoteMeta, without the default
selectActiveSwapperApiResponse_RawMeta ==
    IF activeQuoteMeta = NoMeta THEN NoApiQuote
    ELSE Lookup(tradeQuotes, activeQuoteMeta.swapperName, activeQuoteMeta.identifier)

\* variant: without a selection a response still held is returned
selectActiveSwapperApiResponse_Stale ==
    LET meta == selectActiveQuoteMetaOrDefault
    IN  IF meta = NoMeta
        THEN IF AllApiQuotes(tradeQuotes) # {}
             THEN CHOOSE a \in AllApiQuotes(tradeQuotes) : TRUE
             ELSE NoApiQuote
        ELSE Lookup(tradeQuotes, meta.swapperName, meta.identifier)

selectActiveSwapperApiResponse ==
    LET meta == selectActiveQuoteMetaOrDefault
    IN  IF meta = NoMeta THEN NoApiQuote
        ELSE Lookup(tradeQuotes, meta.swapperName, meta.identifier)

\* variant: the live response wins over the confirmed quote
selectActiveQuote_LiveFirst ==
    IF selectActiveSwapperApiResponse.quote # NoQuote
    THEN selectActiveSwapperApiResponse.quote
    ELSE selectConfirmedQuote

selectActiveQuote ==
    IF selectConfirmedQuote # NoQuote THEN selectConfirmedQuote
    ELSE selectActiveSwapperApiResponse.quote

\* bnOrZero: a missing or unparsable amount (modelled as a negative number) is 0
bnOrZero(x) == IF x < 0 THEN 0 ELSE x

\* Object.values(SwapperName).filter(swapperName => enabledSwappers[swapperName])
selectEnabledSwappersIgnoringCrossAccountTrade ==
    SelectSeq(SwapperName, LAMBDA s : s \in featureFlags)

\* variant: an empty response does not count as a response
selectIsSwapperResponseAvailable_NonEmpty ==
    LET enabledSwappers == selectEnabledSwappersIgnoringCrossAccountTrade
    IN  [s \in {enabledSwappers[i] : i \in 1..Len(enabledSwappers)} |->
            s \in DOMAIN tradeQuotes /\ tradeQuotes[s] # {}]

selectIsSwapperResponseAvailable ==
    LET enabledSwappers == selectEnabledSwappersIgnoringCrossAccountTrade
    IN  [s \in {enabledSwappers[i] : i \in 1..Len(enabledSwappers)} |->
            s \in DOMAIN tradeQuotes]

\* variant: any entry of the response counts as a quote
selectIsSwapperQuoteAvailable_AnyEntry ==
    LET enabledSwappers == selectEnabledSwappersIgnoringCrossAccountTrade
    IN  [s \in {enabledSwappers[i] : i \in 1..Len(enabledSwappers)} |->
            /\ s \in DOMAIN tradeQuotes
            /\ tradeQuotes[s] # {}]

selectIsSwapperQuoteAvailable ==
    LET enabledSwappers == selectEnabledSwappersIgnoringCrossAccountTrade
    IN  [s \in {enabledSwappers[i] : i \in 1..Len(enabledSwappers)} |->
            /\ s \in DOMAIN tradeQuotes
            /\ \E swapperQuote \in tradeQuotes[s] : swapperQuote.quote # NoQuote]

\* variant: <= in place of < in the count of responses
selectTradeQuoteResponseErrors_OffByOne ==
    LET hasUserEnteredAmount == bnOrZero(inputSellAmount) > 0
        numSwappers == Len(selectEnabledSwappersIgnoringCrossAccountTrade)
    IN  IF ~hasUserEnteredAmount THEN {}
        ELSE IF Cardinality(DOMAIN tradeQuotes) <= numSwappers THEN {}
        ELSE IF \A s \in DOMAIN tradeQuotes : Cardinality(tradeQuotes[s]) = 0
             THEN {"NoQuotesAvailable"}
             ELSE {}

selectTradeQuoteResponseErrors ==
    LET hasUserEnteredAmount == bnOrZero(inputSellAmount) > 0
        numSwappers == Len(selectEnabledSwappersIgnoringCrossAccountTrade)
    IN  IF ~hasUserEnteredAmount THEN {}
        ELSE IF Cardinality(DOMAIN tradeQuotes) < numSwappers THEN {}
        ELSE IF \A s \in DOMAIN tradeQuotes : Cardinality(tradeQuotes[s]) = 0
             THEN {"NoQuotesAvailable"}
             ELSE {}

-----------------------------------------------------------------------------
(* Reducers of the quote slice *)

\* upsertTradeQuotes: the response of one swapper replaces its previous one
upsertTradeQuotes(swapperName, quotesById) ==
    /\ tradeQuotes' = [s \in DOMAIN tradeQuotes \cup {swapperName} |->
                          IF s = swapperName THEN quotesById ELSE tradeQuotes[s]]
    /\ UNCHANGED <<activeQuoteMeta, confirmedQuote>>

\* variant: the reset takes the confirmed quote with it
clearTradeQuotes_ResetsConfirmed ==
    /\ tradeQuotes' = <<>>
    /\ activeQuoteMeta' = NoMeta
    /\ confirmedQuote' = NoQuote

\* the quote request changed: the aggregate state and the selection are reset
clearTradeQuotes ==
    /\ tradeQuotes' = <<>>
    /\ activeQuoteMeta' = NoMeta
    /\ UNCHANGED confirmedQuote

\* setActiveQuote: the user selects a quote, or resets the selection
setActiveQuote(apiQuote) ==
    /\ activeQuoteMeta' = IF apiQuote = NoApiQuote THEN NoMeta
                          ELSE [swapperName |-> apiQuote.swapperName,
                                identifier |-> apiQuote.id]
    /\ UNCHANGED <<tradeQuotes, confirmedQuote>>

\* variant: confirming again overwrites the snapshot with the live selection
setConfirmedQuote_Overwrites ==
    /\ selectActiveSwapperApiResponse.quote # NoQuote
    /\ confirmedQuote' = selectActiveSwapperApiResponse.quote
    /\ UNCHANGED <<tradeQuotes, activeQuoteMeta>>

\* confirmRoute: snapshots the active quote
setConfirmedQuote ==
    /\ selectActiveQuote # NoQuote
    /\ confirmedQuote = NoQuote
    /\ confirmedQuote' = selectActiveQuote
    /\ UNCHANGED <<tradeQuotes, activeQuoteMeta>>

\* releaseConfirmedRoute
clearConfirmedQuote ==
    /\ confirmedQuote # NoQuote
    /\ confirmedQuote' = NoQuote
    /\ UNCHANGED <<tradeQuotes, activeQuoteMeta>>

-----------------------------------------------------------------------------
(* Selection and lock: the aggregator writes in the background while the   *)
(* user selects, confirms and releases.                                    *)

SelectSwappers == {"CowSwap", "ArbitrumBridge"}

NoHop == [state |-> "Idle", sellTxHash |-> "", buyTxHash |-> "", message |-> ""]
NoEvent == [type |-> "", message |-> ""]
NoRun == [pc |-> "none", txHash |-> "", resolved |-> FALSE, last |-> NoEvent,
          lastHash |-> "", polls |-> 0, log |-> <<>>, toast |-> "",
          swapperName |-> "", strategy |-> "", threw |-> ""]

\* the hook as mounted: the ref is empty and the effect's cleanup is the value
\* the ref holds when the effect runs
NoHook == [mounted |-> TRUE, cancelPollingRef |-> FALSE, cleanup |-> FALSE,
           chainNamespace |-> "eip155", wallet |-> TRUE, accountMetadata |-> TRUE,
           sellAssetAccountId |-> TRUE]

\* no request issued yet
NoFetch == [request |-> 0, inflight |-> {}, answered |-> <<>>, discarded |-> {},
            pending |-> {}, displayCache |-> {}]

\* a connected wallet that supports the chain and holds the largest amount
ReadyWallet == [isWalletConnected |-> TRUE, chainSupported |-> TRUE,
                balance |-> MaxAmount]

\* no call
NoCalc == [fn |-> "none"]

InitExecIdle ==
    /\ tradeExecution = [h \in 0..1 |-> NoHop]
    /\ run = [h \in 0..1 |-> NoRun]
    /\ hook = [h \in 0..1 |-> NoHook]
    /\ fetch = NoFetch
    /\ wallet = ReadyWallet
    /\ calc = NoCalc

InitSelect ==
    /\ tradeQuotes = <<>>
    /\ activeQuoteMeta = NoMeta
    /\ confirmedQuote = NoQuote
    /\ featureFlags = Swappers
    /\ inputSellAmount = 1
    /\ InitExecIdle

UpsertSelect ==
    /\ \E s \in SelectSwappers : \E r \in ResponsesOf(s, 1..MaxTime, {1}) :
           upsertTradeQuotes(s, r)
    /\ UNCHANGED <<inputVars, execVars, fetch>>

ClearSelect ==
    /\ clearTradeQuotes
    /\ UNCHANGED <<inputVars, execVars, fetch>>

PinQuote ==
    /\ \E a \in {b \in AllApiQuotes(tradeQuotes) : b.quote # NoQuote} \cup {NoApiQuote} :
           setActiveQuote(a)
    /\ UNCHANGED <<inputVars, execVars, fetch>>

ConfirmRoute ==
    /\ setConfirmedQuote
    /\ UNCHANGED <<inputVars, execVars, fetch>>

ReleaseConfirmedRoute ==
    /\ clearConfirmedQuote
    /\ UNCHANGED <<inputVars, execVars, fetch>>

NextSelect ==
    \/ UpsertSelect
    \/ ClearSelect
    \/ PinQuote
    \/ ConfirmRoute
    \/ ReleaseConfirmedRoute

SpecSelect == InitSelect /\ [][NextSelect]_vars

-----------------------------------------------------------------------------
(* Claims on selection and lock *)

\* the pin (swapperName, identifier) resolves in the aggregate state
PinResolves ==
    /\ activeQuoteMeta # NoMeta
    /\ Lookup(tradeQuotes, activeQuoteMeta.swapperName, activeQuoteMeta.identifier)
           # NoApiQuote

TopOfRanking ==
    IF Len(selectSortedTradeQuotes) > 0 THEN selectSortedTradeQuotes[1].quote ELSE NoQuote

\* C1: from the step that confirms a route until the step that releases it,
\* selectActiveQuote keeps returning the same snapshot, whatever the aggregator
\* and the selection do in between.
C1_ActiveQuoteLocked ==
    [][confirmedQuote # NoQuote /\ confirmedQuote' # NoQuote
          => /\ selectActiveQuote' = selectActiveQuote
             /\ selectActiveQuote' = confirmedQuote]_vars

\* C1 witness: a route is confirmed and the aggregate state no longer offers it
\* as the live active quote.
C1_Witness ==
    /\ confirmedQuote # NoQuote
    /\ selectActiveSwapperApiResponse.quote # confirmedQuote
    /\ selectActiveQuote = confirmedQuote

\* C2: while a route is confirmed, selectActiveSwapperName is the swapper of
\* the confirmed route (and so is defined).
C2_SwapperNameOfConfirmed ==
    confirmedQuote # NoQuote => selectActiveSwapperName = confirmedQuote.source

\* C3: with no confirmed route, without a pin the active quote is the first of
\* the ranking, and with a pin that resolves it is the pinned quote.
C3_ActiveIsTopOrPin ==
    confirmedQuote = NoQuote =>
        /\ activeQuoteMeta = NoMeta => selectActiveQuote = TopOfRanking
        /\ PinResolves =>
               selectActiveQuote =
                   Lookup(tradeQuotes, activeQuoteMeta.swapperName,
                          activeQuoteMeta.identifier).quote

\* C3 witness: a pin resolves to a quote that is not the top of a ranking of
\* two quotes.
C3_Witness ==
    /\ confirmedQuote = NoQuote
    /\ PinResolves
    /\ Len(selectSortedTradeQuotes) = 2
    /\ selectActiveQuote # TopOfRanking
    /\ selectActiveQuote = selectSortedTradeQuotes[2].quote

-----------------------------------------------------------------------------
(* Aggregation: every enabled swapper answers on its own; the feature      *)
(* flags and the entered amount change meanwhile.                          *)

InitErrors ==
    /\ tradeQuotes = <<>>
    /\ activeQuoteMeta = NoMeta
    /\ confirmedQuote = NoQuote
    /\ featureFlags = Swappers
    /\ inputSellAmount = 0
    /\ InitExecIdle

\* the response of an enabled swapper arrives (none is asked without an amount)
UpsertResponse ==
    /\ bnOrZero(inputSellAmount) > 0
    /\ \E s \in featureFlags : \E r \in ResponsesOf(s, {1}, {1}) :
           upsertTradeQuotes(s, r)
    /\ UNCHANGED <<inputVars, execVars, fetch>>

\* a feature flag enables or disables one swapper
SetFeatureFlag ==
    /\ \E s \in Swappers :
           featureFlags' = IF s \in featureFlags THEN featureFlags \ {s}
                           ELSE featureFlags \cup {s}
    /\ UNCHANGED <<quoteVars, inputSellAmount, execVars, fetch, wallet, calc>>

\* the user enters another amount (-1: none): a new quote request
SetSellAmount ==
    /\ \E a \in (-1)..MaxAmount :
           /\ a # inputSellAmount
           /\ inputSellAmount' = a
    /\ clearTradeQuotes
    /\ UNCHANGED <<featureFlags, execVars, fetch, wallet, calc>>

NextErrors ==
    \/ UpsertResponse
    \/ SetFeatureFlag
    \/ SetSellAmount

SpecErrors == InitErrors /\ [][NextErrors]_vars

-----------------------------------------------------------------------------
(* Claims on NoQuotesAvailable *)

EnabledSet == {s \in Swappers : s \in featureFlags}

EveryEnabledAnswered == \A s \in EnabledSet : s \in DOMAIN tradeQuotes

NoUsableQuote ==
    \A s \in DOMAIN tradeQuotes : \A a \in tradeQuotes[s] : a.quote = NoQuote

\* C5: NoQuotesAvailable is not reported while an enabled swapper has no
\* recorded response.
C5_NotWhilePending ==
    ~EveryEnabledAnswered => "NoQuotesAvailable" \notin selectTradeQuoteResponseErrors

\* C6 as stated: with an amount entered, once every enabled swapper answered
\* and no response holds a quote, NoQuotesAvailable is reported.
C6_ReportedWhenNoQuote ==
    (bnOrZero(inputSellAmount) > 0 /\ EveryEnabledAnswered /\ NoUsableQuote)
        => "NoQuotesAvailable" \in selectTradeQuoteResponseErrors

\* C6 amended: with an amount entered, once every enabled swapper answered and
\* every recorded response is empty, NoQuotesAvailable is reported.
C6_ReportedWhenAllEmpty ==
    (/\ bnOrZero(inputSellAmount) > 0
     /\ EveryEnabledAnswered
     /\ \A s \in DOMAIN tradeQuotes : tradeQuotes[s] = {})
        => "NoQuotesAvailable" \in selectTradeQuoteResponseErrors

\* C6 witness: three enabled swappers all answered with an empty response.
C6_Witness ==
    /\ bnOrZero(inputSellAmount) > 0
    /\ EnabledSet = Swappers
    /\ EveryEnabledAnswered
    /\ \A s \in DOMAIN tradeQuotes : tradeQuotes[s] = {}
    /\ "NoQuotesAvailable" \in selectTradeQuoteResponseErrors

-----------------------------------------------------------------------------
(* Reducers of the trade execution metadata (firstHop.swap, secondHop.swap) *)

setSwapTxPending(te, hopIndex) == [te EXCEPT ![hopIndex].state = "Pending"]
setSwapTxFailed(te, hopIndex) == [te EXCEPT ![hopIndex].state = "Failed"]
setSwapTxComplete(te, hopIndex) == [te EXCEPT ![hopIndex].state = "Complete"]
setSwapTxMessage(te, hopIndex, message) == [te EXCEPT ![hopIndex].message = message]
setSwapSellTxHash(te, hopIndex, sellTxHash) ==
    [te EXCEPT ![hopIndex].sellTxHash = sellTxHash]
setSwapBuyTxHash(te, hopIndex, buyTxHash) ==
    [te EXCEPT ![hopIndex].buyTxHash = buyTxHash]

selectHopExecutionMetadata(hopIndex) == tradeExecution[hopIndex]

-----------------------------------------------------------------------------
(* The TradeExecution event source                                         *)

\* attempts of the confirmation polling loop
MaxPolls == 2

TerminalEvents == {"Success", "Fail", "Error"}

\* variant: the polling goes on after its handle was invoked
Emits_AfterCancel(pc) ==
    IF pc = "exec" THEN {"SellTxHash", "Fail", "Error"}
    ELSE IF pc \in {"polling", "cancelled"} THEN {"Status", "Success", "Fail", "Error"}
    ELSE {}

\* variant: a status is emitted while the broadcast is still under way
Emits_StatusBeforeSell(pc) ==
    IF pc = "exec" THEN {"SellTxHash", "Status", "Fail", "Error"}
    ELSE IF pc = "polling" THEN {"Status", "Success", "Fail", "Error"}
    ELSE {}

\* the events an execution can emit in a phase: SellTxHash once the broadcast
\* succeeded, then Status while polling, then one terminal event; nothing once
\* it ended or its polling was cancelled
Emits(pc) ==
    IF pc = "exec" THEN {"SellTxHash", "Fail", "Error"}
    ELSE IF pc = "polling" THEN {"Status", "Success", "Fail", "Error"}
    ELSE {}

\* the phase after an event
PhaseAfter(pc, type) ==
    IF type \in TerminalEvents THEN "done"
    ELSE IF type = "SellTxHash" THEN "polling"
    ELSE pc

\* the run after the handlers of an event returned
Handled(r, type, message, hash) ==
    [r EXCEPT !.pc = PhaseAfter(r.pc, type),
              !.last = [type |-> type, message |-> message],
              !.lastHash = hash,
              !.log = Append(r.log, type)]

-----------------------------------------------------------------------------
(* useTradeExecution(hopIndex).executeTrade and the handlers it registers  *)

HopIndexes == 0..1

StatusMessages == {"polling"}
FailureMessages == {"", "rejected"}
SuccessMessage == "trade.transactionSuccessful"

\* what signAndBroadcastTransaction returned ("": a falsy value)
SellTxHashes == {"", "sellTx"}

\* the hook renders for hopIndex only when the quote has that step (steps[hopIndex])
HookRenders(hopIndex) ==
    selectActiveQuote # NoQuote => hopIndex < selectActiveQuote.nSteps

\* variant: the sell account id is not looked at
MissingInput_NoAccountId(hopIndex) ==
    IF ~hook[hopIndex].wallet THEN "missing wallet"
    ELSE IF ~hook[hopIndex].accountMetadata THEN "missing accountMetadata"
    ELSE IF selectActiveQuote = NoQuote THEN "missing tradeQuote"
    ELSE IF selectActiveSwapperName = "" THEN "missing swapperName"
    ELSE ""

\* the error executeTrade throws before it builds the promise ("": none)
MissingInput(hopIndex) ==
    IF ~hook[hopIndex].wallet THEN "missing wallet"
    ELSE IF ~hook[hopIndex].accountMetadata THEN "missing accountMetadata"
    ELSE IF selectActiveQuote = NoQuote THEN "missing tradeQuote"
    ELSE IF selectActiveSwapperName = "" THEN "missing swapperName"
    ELSE IF ~hook[hopIndex].sellAssetAccountId THEN "missing sellAssetAccountId"
    ELSE ""

\* the checks executeTrade makes before it returns the promise
CanExecute(hopIndex) ==
    /\ HookRenders(hopIndex)
    /\ MissingInput(hopIndex) = ""

\* variant: the message is recorded and the hop is not set failed
onFail_MessageOnly(te, hopIndex, message) ==
    setSwapTxMessage(te, hopIndex, message)

\* variant: the hop is set failed and keeps the message it had
onFail_FailedOnly(te, hopIndex, message) ==
    setSwapTxFailed(te, hopIndex)

\* onFail: message, failed, toast, resolve
onFail(te, hopIndex, message) ==
    setSwapTxFailed(setSwapTxMessage(te, hopIndex, message), hopIndex)

\* variant: the hop is completed whether or not a hash was received
onSuccess_NoHashCheck(te, hopIndex, txHash) ==
    setSwapTxComplete(setSwapTxMessage(te, hopIndex, SuccessMessage), hopIndex)

\* variant: Success without a hash sets the hop failed
onSuccess_FailsWithoutHash(te, hopIndex, txHash) ==
    IF txHash = "" THEN setSwapTxFailed(te, hopIndex)
    ELSE setSwapTxComplete(setSwapTxMessage(te, hopIndex, SuccessMessage), hopIndex)

\* the Success handler: without any hash only a toast; else message and complete
onSuccess(te, hopIndex, txHash) ==
    IF txHash = "" THEN te
    ELSE setSwapTxComplete(setSwapTxMessage(te, hopIndex, SuccessMessage), hopIndex)

\* CHAIN_NAMESPACE of the sell asset of a step; "other": none of the three
ChainNamespaces == {"eip155", "bip122", "cosmos", "other"}

\* variant: the default of the switch runs the EVM strategy
Strategy_DefaultEvm(swapperName, chainNamespace) ==
    IF swapperName = "CowSwap"
    THEN IF chainNamespace = "eip155" THEN "execEvmMessage" ELSE ""
    ELSE IF chainNamespace = "bip122" THEN "execUtxoTransaction"
    ELSE IF chainNamespace = "cosmos" THEN "execCosmosSdkTransaction"
    ELSE "execEvmTransaction"

\* variant: the switch on the chain namespace comes before the test of the swapper
Strategy_ChainFirst(swapperName, chainNamespace) ==
    IF chainNamespace = "eip155" THEN "execEvmTransaction"
    ELSE IF chainNamespace = "bip122" THEN "execUtxoTransaction"
    ELSE IF chainNamespace = "cosmos" THEN "execCosmosSdkTransaction"
    ELSE ""

\* the exec* method executeTrade calls ("": it throws before any is called):
\* CowSwap signs a message with the EVM adapter of the chain, every other
\* swapper goes through the switch on the chain namespace
Strategy(swapperName, chainNamespace) ==
    IF swapperName = "CowSwap"
    THEN IF chainNamespace = "eip155" THEN "execEvmMessage" ELSE ""
    ELSE IF chainNamespace = "eip155" THEN "execEvmTransaction"
    ELSE IF chainNamespace = "bip122" THEN "execUtxoTransaction"
    ELSE IF chainNamespace = "cosmos" THEN "execCosmosSdkTransaction"
    ELSE ""

\* the callback executeTrade hands to the exec* method
Callback(strategy) ==
    IF strategy = "execEvmMessage" THEN "signMessage"
    ELSE IF strategy = "" THEN ""
    ELSE "signAndBroadcastTransaction"

\* executeTrade up to its first await: the hop is set pending
ExecuteTrade(hopIndex) ==
    /\ run[hopIndex].pc \in {"none", "done", "rejected", "cancelled"}
    /\ hook[hopIndex].mounted
    /\ CanExecute(hopIndex)
    /\ tradeExecution' = setSwapTxPending(tradeExecution, hopIndex)
    /\ run' = [run EXCEPT ![hopIndex] =
                  [NoRun EXCEPT !.pc = "setup", !.swapperName = selectActiveSwapperName]]
    /\ UNCHANGED <<quoteVars, inputVars, hook, fetch>>

\* the adapter calls before exec* resolve: exec* starts signing and broadcasting
SetupResolves(hopIndex) ==
    /\ run[hopIndex].pc = "setup"
    /\ Strategy(run[hopIndex].swapperName, hook[hopIndex].chainNamespace) # ""
    /\ run' = [run EXCEPT
                  ![hopIndex].pc = "exec",
                  ![hopIndex].strategy =
                      Strategy(run[hopIndex].swapperName, hook[hopIndex].chainNamespace)]
    /\ UNCHANGED <<quoteVars, inputVars, tradeExecution, hook, fetch>>

\* an adapter call before exec* rejects, or the executor throws (no adapter
\* for the chain, no account type, no case of the switch), inside the promise
\* executor
SetupRejects(hopIndex) ==
    /\ run[hopIndex].pc = "setup"
    /\ run' = [run EXCEPT ![hopIndex].pc = "rejected"]
    /\ UNCHANGED <<quoteVars, inputVars, tradeExecution, hook, fetch>>

\* signing or broadcasting fails: the execution emits Fail or Error
BroadcastFails(hopIndex) ==
    /\ run[hopIndex].pc = "exec"
    /\ \E type \in {"Fail", "Error"} \cap Emits(run[hopIndex].pc),
          message \in FailureMessages :
           /\ tradeExecution' = onFail(tradeExecution, hopIndex, message)
           /\ run' = [run EXCEPT ![hopIndex] =
                         [Handled(@, type, message, "") EXCEPT
                              !.resolved = TRUE, !.toast = "failure"]]
    /\ UNCHANGED <<quoteVars, inputVars, hook, fetch>>

\* the broadcast succeeded: SellTxHash; exec* then returns the handle of the
\* polling it started, which is stored in cancelPollingRef
OnSellTxHash(hopIndex) ==
    /\ "SellTxHash" \in Emits(run[hopIndex].pc)
    /\ \E sellTxHash \in SellTxHashes :
           /\ tradeExecution' = setSwapSellTxHash(tradeExecution, hopIndex, sellTxHash)
           /\ run' = [run EXCEPT ![hopIndex] =
                         [Handled(@, "SellTxHash", "", sellTxHash) EXCEPT
                              !.txHash = sellTxHash]]
    /\ hook' = [hook EXCEPT ![hopIndex].cancelPollingRef = TRUE]
    /\ UNCHANGED <<quoteVars, inputVars, fetch>>

\* Status while polling; the action of setSwapBuyTxHash is created, not dispatched
OnStatus(hopIndex) ==
    /\ "Status" \in Emits(run[hopIndex].pc)
    /\ run[hopIndex].polls < MaxPolls
    /\ \E message \in StatusMessages, buyTxHash \in {"", "buyTx"} :
           /\ tradeExecution' = setSwapTxMessage(tradeExecution, hopIndex, message)
           /\ run' = [run EXCEPT ![hopIndex] =
                         [Handled(@, "Status", message, buyTxHash) EXCEPT
                              !.txHash = IF buyTxHash # "" THEN buyTxHash ELSE @,
                              !.polls = @ + 1]]
    /\ UNCHANGED <<quoteVars, inputVars, hook, fetch>>

\* Success
OnSuccess(hopIndex) ==
    /\ "Success" \in Emits(run[hopIndex].pc)
    /\ tradeExecution' = onSuccess(tradeExecution, hopIndex, run[hopIndex].txHash)
    /\ run' = [run EXCEPT ![hopIndex] =
                  [Handled(@, "Success", "", "") EXCEPT
                       !.resolved = TRUE,
                       !.toast = IF run[hopIndex].txHash = "" THEN "missing txHash"
                                 ELSE @]]
    /\ UNCHANGED <<quoteVars, inputVars, hook, fetch>>

\* Fail or Error while polling
OnFail(hopIndex) ==
    /\ run[hopIndex].pc = "polling"
    /\ \E type \in {"Fail", "Error"} \cap Emits(run[hopIndex].pc),
          message \in FailureMessages :
           /\ tradeExecution' = onFail(tradeExecution, hopIndex, message)
           /\ run' = [run EXCEPT ![hopIndex] =
                         [Handled(@, type, message, "") EXCEPT
                              !.resolved = TRUE, !.toast = "failure"]]
    /\ UNCHANGED <<quoteVars, inputVars, hook, fetch>>

\* the handle returned by exec* is invoked: the polling stops, no event follows
CancelPolling(hopIndex) ==
    /\ run[hopIndex].pc = "polling"
    /\ hook[hopIndex].cancelPollingRef
    /\ run' = [run EXCEPT ![hopIndex].pc = "cancelled"]
    /\ UNCHANGED <<quoteVars, inputVars, tradeExecution, hook, fetch>>

\* the component unmounts: React runs the cleanup the effect returned at mount
Unmount(hopIndex) ==
    /\ hook[hopIndex].mounted
    /\ hook' = [hook EXCEPT ![hopIndex].mounted = FALSE]
    /\ run' = IF hook[hopIndex].cleanup /\ run[hopIndex].pc = "polling"
              THEN [run EXCEPT ![hopIndex].pc = "cancelled"]
              ELSE run
    /\ UNCHANGED <<quoteVars, inputVars, tradeExecution, fetch>>

\* the quotes a trade is executed on
ExecQuotes ==
    {TradeQuote(s, "q1", 1, 0, 1, n) : s \in {"CowSwap", "Thorchain"}, n \in {1, 2}}

InitExec ==
    /\ \E q \in ExecQuotes :
           /\ confirmedQuote = q
           /\ tradeQuotes = [s \in {q.source} |-> {ApiQuote(s, q.id, q, {})}]
    /\ activeQuoteMeta = NoMeta
    /\ featureFlags = Swappers
    /\ inputSellAmount = 1
    /\ InitExecIdle

\* a step of the execution started for hopIndex
RunStep(hopIndex) ==
    \/ SetupResolves(hopIndex)
    \/ SetupRejects(hopIndex)
    \/ BroadcastFails(hopIndex)
    \/ OnSellTxHash(hopIndex)
    \/ OnStatus(hopIndex)
    \/ OnSuccess(hopIndex)
    \/ OnFail(hopIndex)

NextExec ==
    \E hopIndex \in HopIndexes :
        \/ ExecuteTrade(hopIndex)
        \/ RunStep(hopIndex)
        \/ CancelPolling(hopIndex)
        \/ Unmount(hopIndex)

SpecExec == InitExec /\ [][NextExec]_vars

\* every execution that can take a step eventually takes one
SpecExecFair == SpecExec /\ \A hopIndex \in HopIndexes : WF_vars(RunStep(hopIndex))

-----------------------------------------------------------------------------
(* Claims on the hop lifecycle *)

Terminal(hopIndex) == tradeExecution[hopIndex].state \in {"Complete", "Failed"}

\* C7: a hop that is Succeeded or Failed keeps that lifecycle state.
C7_TerminalStaysTerminal ==
    [][\A h \in HopIndexes :
          Terminal(h) => tradeExecution'[h].state = tradeExecution[h].state]_vars

\* C8: the second hop leaves Idle only in states where the first hop is Succeeded.
C8_SecondHopAfterFirst ==
    [][(tradeExecution[1].state = "Idle" /\ tradeExecution'[1].state # "Idle")
          => tradeExecution[0].state = "Complete"]_vars

\* C9: at most one hop is pending (neither Idle nor terminal).
C9_OneHopInFlight ==
    Cardinality({h \in HopIndexes : tradeExecution[h].state = "Pending"}) <= 1

\* the step in which signing or broadcasting of hop h fails: no SellTxHash yet
BroadcastFailureStep(h) ==
    /\ run[h].pc = "exec"
    /\ run'[h].pc = "done"

\* C10: when the broadcast of hop k fails, hop k is Failed with the message of
\* the failure, the other hop is unchanged and the promise is resolved.
C10_BroadcastFailure ==
    [][\A h \in HopIndexes :
          BroadcastFailureStep(h) =>
              /\ run'[h].last.type \in {"Fail", "Error"}
              /\ tradeExecution'[h].state = "Failed"
              /\ tradeExecution'[h].message = run'[h].last.message
              /\ run'[h].resolved
              /\ \A j \in HopIndexes \ {h} :
                     tradeExecution'[j] = tradeExecution[j]]_vars

\* C10 witness: the first hop Succeeded and the broadcast of the second failed.
C10_Witness ==
    /\ tradeExecution[0].state = "Complete"
    /\ tradeExecution[1].state = "Failed"
    /\ tradeExecution[1].sellTxHash = ""
    /\ tradeExecution[1].message = "rejected"
    /\ run[1].last = [type |-> "Error", message |-> "rejected"]
    /\ run[1].resolved

-----------------------------------------------------------------------------
(* Claims on cancellation, teardown and the events of a run *)

\* C11: once the handle of hop k was invoked while polling, no event of that
\* execution is handled: the hop keeps its state, hashes and message, and is
\* not Succeeded.
C11_CancelFreezesHop ==
    [][\A h \in HopIndexes :
          run'[h].pc = "cancelled" =>
              /\ tradeExecution'[h] = tradeExecution[h]
              /\ tradeExecution'[h].state # "Complete"
              /\ run'[h].log = run[h].log]_vars

\* C11 witness: hop 1 was cancelled after its sell hash and a status, and the
\* session went on: the hook of hop 0 unmounted after hop 0 succeeded.
C11_Witness ==
    /\ run[1].pc = "cancelled"
    /\ run[1].log = <<"SellTxHash", "Status">>
    /\ tradeExecution[1] = [state |-> "Pending", sellTxHash |-> "sellTx",
                            buyTxHash |-> "", message |-> "polling"]
    /\ tradeExecution[0].state = "Complete"
    /\ ~hook[0].mounted

\* C12: when the component unmounts while the polling of hop k is in flight,
\* the stored handle is invoked.
C12_UnmountCancels ==
    [][\A h \in HopIndexes :
          (hook[h].mounted /\ ~hook'[h].mounted /\ run[h].pc = "polling")
              => run'[h].pc = "cancelled"]_vars

\* C13: every invocation of executeTrade leads to a handled terminal event or
\* to a cancelled polling.
C13_EventuallyTerminalOrCancelled ==
    \A h \in HopIndexes :
        (run[h].pc = "setup") ~> (run[h].pc \in {"done", "cancelled"})

\* the step in which Success of hop h is handled
SuccessStep(h) ==
    /\ run[h].pc = "polling"
    /\ run'[h].pc = "done"
    /\ run'[h].last.type = "Success"

\* a Status of this run carried a buy hash
BuyTxObserved(h) == run[h].txHash \notin SellTxHashes

StatusWithBuyTxHashStep(h) ==
    /\ Len(run'[h].log) = Len(run[h].log) + 1
    /\ run'[h].last.type = "Status"
    /\ run'[h].lastHash # ""

\* C15: after a Status with a buy hash, the hop records that hash and the
\* message of the event.
C15_BuyTxHashRecorded ==
    [][\A h \in HopIndexes :
          StatusWithBuyTxHashStep(h) =>
              /\ tradeExecution'[h].buyTxHash = run'[h].lastHash
              /\ tradeExecution'[h].message = run'[h].last.message]_vars

\* the events of a run in the required order
InOrder(log) ==
    /\ \A i \in 1..Len(log) :
           /\ log[i] = "SellTxHash" => i = 1
           /\ log[i] = "Status" => (i > 1 /\ log[1] = "SellTxHash")
           /\ log[i] \in TerminalEvents => i = Len(log)

-----------------------------------------------------------------------------
(* A session: the aggregator goes on writing while the confirmed trade is  *)
(* executed.                                                               *)

\* what a refresh records for a swapper: nothing, another quote, an error
SessionResponses(s) ==
    {{},
     {ApiQuote(s, "q2", TradeQuote(s, "q2", 2, 0, 1, 1), {})},
     {ApiQuote(s, "e1", NoQuote, {"UnsupportedTradePair"})}}

RefreshSession ==
    /\ \E s \in {"CowSwap"} : \E r \in SessionResponses(s) : upsertTradeQuotes(s, r)
    /\ UNCHANGED <<inputVars, execVars, fetch>>

NextSession ==
    \/ \E hopIndex \in HopIndexes : ExecuteTrade(hopIndex) \/ RunStep(hopIndex)
    \/ RefreshSession
    \/ ClearSelect

SpecSession == InitExec /\ [][NextSession]_vars

\* a step in which the aggregator wrote
AggregatorWrite == tradeQuotes' # tradeQuotes

\* C17: a write of the aggregator, a reset for a new quote request included,
\* leaves the confirmed quote and the execution state of every hop as they
\* were, and so what selectActiveQuote and selectHopExecutionMetadata return.
C17_AggregatorFrame ==
    [][AggregatorWrite =>
          /\ confirmedQuote' = confirmedQuote
          /\ selectActiveQuote' = selectActiveQuote
          /\ \A h \in HopIndexes :
                 selectHopExecutionMetadata(h)' = selectHopExecutionMetadata(h)]_vars

\* C17 witness: hop 0 Succeeded and hop 1 is polling on the confirmed quote,
\* which the aggregate state, reset and refreshed meanwhile, no longer holds.
C17_Witness ==
    /\ confirmedQuote.id = "q1"
    /\ tradeExecution[0].state = "Complete"
    /\ run[1].pc = "polling"
    /\ tradeQuotes # <<>>
    /\ Lookup(tradeQuotes, confirmedQuote.source, "q1") = NoApiQuote
    /\ selectActiveQuote = confirmedQuote

-----------------------------------------------------------------------------
(* Claims on confirmation *)

\* C18: the confirmed quote is set only in a state without a confirmed quote
\* and with an active quote, and it is set to that active quote; a confirmed
\* quote is never replaced by another.
C18_ConfirmSnapshotsActive ==
    [][(confirmedQuote' # confirmedQuote /\ confirmedQuote' # NoQuote) =>
          /\ confirmedQuote = NoQuote
          /\ selectActiveQuote # NoQuote
          /\ confirmedQuote' = selectActiveQuote]_vars

\* C18 witness: the confirmed quote is the pinned one, not the top of the
\* ranking, and the live selection has moved on since.
C18_Witness ==
    /\ confirmedQuote # NoQuote
    /\ Len(selectSortedTradeQuotes) = 2
    /\ confirmedQuote = selectSortedTradeQuotes[2].quote
    /\ activeQuoteMeta = NoMeta
    /\ selectActiveSwapperApiResponse.quote = TopOfRanking

-----------------------------------------------------------------------------
(* Quote requests and the responses in flight *)

\* requests issued in a session
MaxRequests == 2

Tag(s, n) == [swapperName |-> s, request |-> n]

\* variant: no response is taken for stale
IsStale_Never(tag) == FALSE

\* a response is stale when it answers a request that is no longer in force
IsStale(tag) == tag.request # fetch.request

\* a new quote request: the aggregate state is reset and every swapper is asked;
\* the responses to earlier requests stay in flight
NewQuoteRequest ==
    /\ fetch.request < MaxRequests
    /\ clearTradeQuotes
    /\ fetch' = [fetch EXCEPT
                    !.request = @ + 1,
                    !.inflight = @ \cup {Tag(s, fetch.request + 1) : s \in SelectSwappers},
                    !.answered = <<>>]
    /\ UNCHANGED <<inputVars, execVars>>

\* the response to the request in force arrives and is recorded
ResponseArrives ==
    \E tag \in fetch.inflight :
        /\ ~IsStale(tag)
        /\ \E r \in ResponsesOf(tag.swapperName, {1}, {1}) :
               upsertTradeQuotes(tag.swapperName, r)
        /\ fetch' = [fetch EXCEPT
                        !.inflight = @ \ {tag},
                        !.answered = [s \in DOMAIN fetch.answered \cup {tag.swapperName} |->
                                         IF s = tag.swapperName THEN tag.request
                                         ELSE fetch.answered[s]]]
        /\ UNCHANGED <<inputVars, execVars>>

\* the response to a superseded request arrives and is discarded
StaleResponseArrives ==
    \E tag \in fetch.inflight :
        /\ IsStale(tag)
        /\ fetch' = [fetch EXCEPT !.inflight = @ \ {tag}, !.discarded = {tag}]
        /\ UNCHANGED <<quoteVars, inputVars, execVars>>

NextRequests ==
    \/ NewQuoteRequest
    \/ ResponseArrives
    \/ StaleResponseArrives

SpecRequests == InitSelect /\ [][NextRequests]_vars

\* C20: every response the aggregate state holds was produced for the request
\* in force; the arrival of a response to a superseded request changes nothing.
C20_NoStaleEntry ==
    \A s \in DOMAIN tradeQuotes :
        /\ s \in DOMAIN fetch.answered
        /\ fetch.answered[s] = fetch.request

\* C20 witness: the response of CowSwap to request 1 arrived after request 2
\* was issued and after CowSwap had answered request 2; the response to
\* request 2 is still the one recorded.
C20_Witness ==
    /\ fetch.request = 2
    /\ fetch.discarded = {Tag("CowSwap", 1)}
    /\ "CowSwap" \in DOMAIN tradeQuotes
    /\ tradeQuotes["CowSwap"] # {}
    /\ fetch.answered["CowSwap"] = 2

-----------------------------------------------------------------------------
(* Claims on the recording of responses and on the ranking *)

\* the response of swapper s is recorded in this step
Recorded(s) ==
    /\ s \in DOMAIN tradeQuotes'
    /\ s \in DOMAIN tradeQuotes => tradeQuotes'[s] # tradeQuotes[s]

\* C21: the response of a swapper is recorded whatever the other swappers have
\* done; in the state it is recorded in, its availability flag is set and its
\* quotes are in the ranking, and what the others have recorded, or not, is
\* as before.
C21_RecordedIndependently ==
    [][\A s \in Swappers :
          Recorded(s) =>
              /\ s \in featureFlags' => selectIsSwapperResponseAvailable'[s]
              /\ \A a \in tradeQuotes'[s] :
                     a.quote # NoQuote =>
                         \E i \in 1..Len(selectSortedTradeQuotes') :
                             selectSortedTradeQuotes'[i] = a
              /\ \A t \in Swappers \ {s} :
                     /\ t \in DOMAIN tradeQuotes' <=> t \in DOMAIN tradeQuotes
                     /\ t \in DOMAIN tradeQuotes => tradeQuotes'[t] = tradeQuotes[t]]_vars

\* C21 witness: CowSwap has answered with a quote, which is ranked, while
\* ArbitrumBridge has failed and Thorchain has not answered.
C21_Witness ==
    /\ featureFlags = Swappers
    /\ DOMAIN tradeQuotes = {"CowSwap", "ArbitrumBridge"}
    /\ \A a \in tradeQuotes["ArbitrumBridge"] : a.quote = NoQuote
    /\ tradeQuotes["ArbitrumBridge"] # {}
    /\ selectIsSwapperResponseAvailable["CowSwap"]
    /\ ~selectIsSwapperResponseAvailable["Thorchain"]
    /\ Len(selectSortedTradeQuotes) = 1
    /\ selectSortedTradeQuotes[1].swapperName = "CowSwap"

\* C22: for every enabled swapper, the response flag is set exactly when a
\* response is recorded, empty or not, the quote flag exactly when an entry of
\* the response holds a quote, and the quote flag implies the response flag.
C22_FlagsTellApart ==
    /\ DOMAIN selectIsSwapperResponseAvailable = EnabledSet
    /\ DOMAIN selectIsSwapperQuoteAvailable = EnabledSet
    /\ \A s \in EnabledSet :
           /\ selectIsSwapperResponseAvailable[s] <=> s \in DOMAIN tradeQuotes
           /\ selectIsSwapperQuoteAvailable[s] <=>
                  (/\ s \in DOMAIN tradeQuotes
                   /\ \E a \in tradeQuotes[s] : a.quote # NoQuote)
           /\ selectIsSwapperQuoteAvailable[s] => selectIsSwapperResponseAvailable[s]

\* C22 witness: of three enabled swappers one has not answered, one answered
\* with no entry, and one with an error and no quote.
C22_Witness ==
    /\ EnabledSet = Swappers
    /\ ~selectIsSwapperResponseAvailable["CowSwap"]
    /\ selectIsSwapperResponseAvailable["ArbitrumBridge"]
    /\ tradeQuotes["ArbitrumBridge"] = {}
    /\ selectIsSwapperResponseAvailable["Thorchain"]
    /\ tradeQuotes["Thorchain"] # {}
    /\ ~selectIsSwapperQuoteAvailable["Thorchain"]

\* the entries that take part in the ranking
Ranked == {a \in AllApiQuotes(tradeQuotes) : a.quote # NoQuote}

-----------------------------------------------------------------------------
(* Claims on the handling of Fail and Error *)

\* the step in which a Fail or an Error of hop h is handled
FailureStep(h) ==
    /\ Len(run'[h].log) = Len(run[h].log) + 1
    /\ run'[h].last.type \in {"Fail", "Error"}

\* C30: handling Error gives what handling Fail with the same message gives:
\* the state after the step is fixed by the state before it and the message.
C30_ErrorAsFail ==
    [][\A h \in HopIndexes :
          FailureStep(h) =>
              /\ tradeExecution' =
                     [tradeExecution EXCEPT ![h].message = run'[h].last.message,
                                            ![h].state = "Failed"]
              /\ run'[h] = [run[h] EXCEPT !.pc = "done",
                                          !.resolved = TRUE,
                                          !.toast = "failure",
                                          !.lastHash = "",
                                          !.log = Append(run[h].log, run'[h].last.type),
                                          !.last = run'[h].last]]_vars

\* C30 witness: hop 0 ended on Fail and hop 1 on Error with the same message,
\* from like states, and they are in like states.
C30_Witness ==
    /\ run[0].last = [type |-> "Fail", message |-> "rejected"]
    /\ run[1].last = [type |-> "Error", message |-> "rejected"]
    /\ run[0].log = <<"SellTxHash", "Status", "Fail">>
    /\ run[1].log = <<"SellTxHash", "Status", "Error">>
    /\ tradeExecution[0] = tradeExecution[1]
    /\ tradeExecution[0].state = "Failed"
    /\ run[0].resolved /\ run[1].resolved

-----------------------------------------------------------------------------
(* Dispatch: the hook of hop 0 for a step on any chain namespace *)

InitDispatch ==
    /\ \E q \in ExecQuotes :
           /\ confirmedQuote = q
           /\ tradeQuotes = [s \in {q.source} |-> {ApiQuote(s, q.id, q, {})}]
    /\ activeQuoteMeta = NoMeta
    /\ featureFlags = Swappers
    /\ inputSellAmount = 1
    /\ tradeExecution = [h \in 0..1 |-> NoHop]
    /\ run = [h \in 0..1 |-> NoRun]
    /\ \E ns \in ChainNamespaces :
           hook = [h \in 0..1 |-> [NoHook EXCEPT !.chainNamespace = ns]]
    /\ fetch = NoFetch
    /\ wallet = ReadyWallet
    /\ calc = NoCalc

NextDispatch ==
    \/ ExecuteTrade(0)
    \/ RunStep(0)
    \/ CancelPolling(0)

SpecDispatch == InitDispatch /\ [][NextDispatch]_vars

\* the step in which the executor of hop h leaves its set-up
LeavesSetup(h) == run[h].pc = "setup" /\ run'[h].pc # "setup"

C29_CowSwapSignsMessage ==
    \A h \in HopIndexes :
        run[h].swapperName = "CowSwap" =>
            /\ run[h].strategy \in {"", "execEvmMessage"}
            /\ Callback(run[h].strategy) # "signAndBroadcastTransaction"
            /\ run[h].pc \in {"exec", "polling", "cancelled"}
                   => run[h].strategy = "execEvmMessage"
            /\ run[h].log # <<>> /\ run[h].log[1] = "SellTxHash"
                   => Callback(run[h].strategy) = "signMessage"

\* C29 witness: a CowSwap step is polling after its signed message was
\* submitted.
C29_Witness ==
    /\ run[0].swapperName = "CowSwap"
    /\ run[0].strategy = "execEvmMessage"
    /\ Callback(run[0].strategy) = "signMessage"
    /\ run[0].pc = "polling"
    /\ run[0].log = <<"SellTxHash">>

-----------------------------------------------------------------------------
(* The request check, before the request is fanned out *)

Wallets ==
    [isWalletConnected : BOOLEAN, chainSupported : BOOLEAN, balance : 0..MaxAmount]

\* validateQuoteRequest: the first precondition that fails, as a list of errors
validateQuoteRequest(w, sellAmountCryptoBaseUnit) ==
    IF ~w.isWalletConnected THEN <<"WalletDisconnected">>
    ELSE IF ~w.chainSupported THEN <<"UnsupportedChain">>
    ELSE IF bnOrZero(sellAmountCryptoBaseUnit) = 0 THEN <<"InvalidAmount">>
    ELSE IF w.balance < sellAmountCryptoBaseUnit THEN <<"InsufficientBalance">>
    ELSE <<>>

\* variant: the request is validated whether or not an amount was entered
selectTradeQuoteRequestErrors_AlwaysValidates ==
    validateQuoteRequest(wallet, inputSellAmount)

selectTradeQuoteRequestErrors ==
    LET hasUserEnteredAmount == bnOrZero(inputSellAmount) > 0
    IN  IF ~hasUserEnteredAmount THEN <<>>
        ELSE validateQuoteRequest(wallet, inputSellAmount)

\* the request-level preconditions hold for amount a and wallet w
RequestPasses(a, w) == validateQuoteRequest(w, a) = <<>>

\* the request changes (amount, wallet): the aggregate state is reset, and the
\* new request is fanned out only if it passes the check
ChangeQuoteRequest ==
    /\ fetch.request < MaxRequests
    /\ \E a \in (-1)..MaxAmount, w \in Wallets :
           /\ <<a, w>> # <<inputSellAmount, wallet>>
           /\ inputSellAmount' = a
           /\ wallet' = w
           /\ fetch' = [fetch EXCEPT
                           !.request = @ + 1,
                           !.inflight = IF RequestPasses(a, w)
                                        THEN @ \cup {Tag("CowSwap", fetch.request + 1)}
                                        ELSE @,
                           !.answered = <<>>]
    /\ clearTradeQuotes
    /\ UNCHANGED <<featureFlags, calc, execVars>>

NextPrecheck ==
    \/ ChangeQuoteRequest
    \/ ResponseArrives
    \/ StaleResponseArrives

SpecPrecheck == InitSelect /\ [][NextPrecheck]_vars

\* a request was made and one of its preconditions fails
PreconditionFails ==
    /\ fetch.request > 0
    /\ \/ ~wallet.isWalletConnected
       \/ ~wallet.chainSupported
       \/ bnOrZero(inputSellAmount) = 0
       \/ wallet.balance < inputSellAmount

\* no swapper was asked for the request in force and nothing is recorded
NothingFannedOut ==
    /\ \A tag \in fetch.inflight : tag.request # fetch.request
    /\ tradeQuotes = <<>>

-----------------------------------------------------------------------------
(* Network fees of the active quote in the user's currency *)

\* network fees of a hop in base units: 0..MaxFee
MaxFee == 2

\* precisions of the fee assets
Precisions == {0, 1}

\* prices of the fee assets in the user's currency (-1: no market data)
Prices == {-1, 0, 2}

\* a decimal number num / den, den a power of ten
bn(x) == [num |-> x, den |-> 1]

\* undefined
NoNumber == [num |-> 0, den |-> 0]

\* the selector threw
Thrown == [num |-> 0, den |-> -1]

RECURSIVE Pow10(_)
Pow10(n) == IF n = 0 THEN 1 ELSE 10 * Pow10(n - 1)

fromBaseUnit(x, precision) == [num |-> x, den |-> Pow10(precision)]

times(a, b) == [num |-> a.num * b.num, den |-> a.den * b.den]

plus(a, b) == [num |-> a.num * b.den + b.num * a.den, den |-> a.den * b.den]

\* BigNumber.toString: the decimal without trailing zeros
RECURSIVE toString(_)
toString(a) ==
    IF a.den > 1 /\ a.num % 10 = 0
    THEN toString([num |-> a.num \div 10, den |-> a.den \div 10])
    ELSE a

\* bnOrZero of a decimal string or undefined
bnOrZeroDecimal(a) == IF a = NoNumber THEN bn(0) ELSE a

\* a step of the quote, as far as its network fee goes
FeeSteps ==
    [networkFeeCryptoBaseUnit : (-1)..MaxFee, feeAssetKnown : BOOLEAN,
     precision : Precisions, price : Prices]

NoFeeStep ==
    [networkFeeCryptoBaseUnit |-> -1, feeAssetKnown |-> FALSE,
     precision |-> 0, price |-> -1]

\* the active quote: none, one step or two
FeeInputs ==
    {[nSteps |-> 0, first |-> NoFeeStep, second |-> NoFeeStep]}
    \cup {[nSteps |-> 1, first |-> a, second |-> NoFeeStep] : a \in FeeSteps}
    \cup {[nSteps |-> 2, first |-> a, second |-> b] : a \in FeeSteps, b \in FeeSteps}

\* the fee of a hop in the user's currency; undefined without a fee
getHopTotalNetworkFeeUserCurrencyPrecision(networkFeeCryptoBaseUnit, precision, rate) ==
    IF networkFeeCryptoBaseUnit < 0 THEN NoNumber
    ELSE times(fromBaseUnit(networkFeeCryptoBaseUnit, precision), rate)

\* the body shared by the selectors of the first and of the second hop
HopNetworkFeeUserCurrencyPrecision(present, tradeQuoteStep) ==
    IF ~present THEN NoNumber
    ELSE IF ~tradeQuoteStep.feeAssetKnown THEN Thrown
    ELSE LET rate == IF tradeQuoteStep.price < 0 THEN bn(0) ELSE bn(tradeQuoteStep.price)
             fee == getHopTotalNetworkFeeUserCurrencyPrecision(
                        tradeQuoteStep.networkFeeCryptoBaseUnit,
                        tradeQuoteStep.precision, rate)
         IN  IF fee = NoNumber THEN NoNumber ELSE toString(fee)

selectFirstHopNetworkFeeUserCurrencyPrecision ==
    HopNetworkFeeUserCurrencyPrecision(calc.in.nSteps >= 1, calc.in.first)

selectSecondHopNetworkFeeUserCurrencyPrecision ==
    HopNetworkFeeUserCurrencyPrecision(calc.in.nSteps >= 2, calc.in.second)

selectHopNetworkFeeUserCurrencyPrecision(hopIndex) ==
    IF hopIndex = 0 THEN selectFirstHopNetworkFeeUserCurrencyPrecision
    ELSE selectSecondHopNetworkFeeUserCurrencyPrecision

\* variant: the second hop is left out of the total
selectTotalNetworkFeeUserCurrencyPrecision_FirstHopOnly ==
    IF selectFirstHopNetworkFeeUserCurrencyPrecision = Thrown THEN Thrown
    ELSE toString(bnOrZeroDecimal(selectFirstHopNetworkFeeUserCurrencyPrecision))

selectTotalNetworkFeeUserCurrencyPrecision ==
    LET first == selectFirstHopNetworkFeeUserCurrencyPrecision
        second == selectSecondHopNetworkFeeUserCurrencyPrecision
    IN  IF first = Thrown \/ second = Thrown THEN Thrown
        ELSE toString(plus(bnOrZeroDecimal(first),
                           IF second = NoNumber THEN bn(0) ELSE second))

\* everything but calc, at rest
InitRest ==
    /\ tradeQuotes = <<>>
    /\ activeQuoteMeta = NoMeta
    /\ confirmedQuote = NoQuote
    /\ featureFlags = Swappers
    /\ inputSellAmount = 1
    /\ tradeExecution = [h \in 0..1 |-> NoHop]
    /\ run = [h \in 0..1 |-> NoRun]
    /\ hook = [h \in 0..1 |-> NoHook]
    /\ fetch = NoFetch
    /\ wallet = ReadyWallet

InitFees ==
    /\ InitRest
    /\ \E in \in FeeInputs : calc = [fn |-> "fees", in |-> in, done |-> FALSE]

\* the selectors are evaluated on the quote
ComputeFees ==
    /\ calc.fn = "fees"
    /\ ~calc.done
    /\ calc' = [fn |-> "fees", in |-> calc.in, done |-> TRUE,
                out |-> [hop0 |-> selectHopNetworkFeeUserCurrencyPrecision(0),
                         hop1 |-> selectHopNetworkFeeUserCurrencyPrecision(1),
                         total |-> selectTotalNetworkFeeUserCurrencyPrecision]]
    /\ UNCHANGED <<quoteVars, featureFlags, inputSellAmount, wallet, execVars, fetch>>

SpecFees == InitFees /\ [][ComputeFees]_vars

\* the same number
SameNumber(a, b) == a.num * b.den = b.num * a.den

-----------------------------------------------------------------------------
(* The quote of the Arbitrum bridge *)

BridgeChains == {"ethChainId", "arbitrumChainId"}

\* what assertValidTrade answers: Ok, or Err of a validation error
Assertions == {"Ok", "UnsupportedTradePair", "ValidationFailed"}

\* what fetchArbitrumBridgeSwap does: it throws, or it answers a swap
NoSwap == [threw |-> TRUE, networkFeeCryptoBaseUnit |-> 0, allowanceContract |-> ""]

Swaps ==
    {NoSwap} \cup
    [threw : {FALSE}, networkFeeCryptoBaseUnit : 0..MaxFee,
     allowanceContract : {"0x0", "gateway"}]

BridgeInputs ==
    [sellAmountIncludingProtocolFeesCryptoBaseUnit : 0..MaxAmount,
     sellChainId : BridgeChains, assertion : Assertions, swap : Swaps]

NoResult == [tag |-> "none"]

\* variant: every quote is estimated as a deposit
estimatedExecutionTimeMs_AsDeposit(isDeposit) == 15 * 60 * 1000

\* 15 minutes for deposits, 7 days for withdrawals
estimatedExecutionTimeMs(isDeposit) ==
    IF isDeposit THEN 15 * 60 * 1000 ELSE 7 * 24 * 60 * 60 * 1000

\* variant: the network fee is taken off the amount bought
BridgeQuote_NetOfFee(input, swap) ==
    LET isDeposit == input.sellChainId = "ethChainId"
    IN  [tag |-> "Ok",
         value |->
           [id |-> "uuid", affiliateBps |-> "0", potentialAffiliateBps |-> "0",
            rate |-> "1",
            steps |-> <<[estimatedExecutionTimeMs |-> estimatedExecutionTimeMs(isDeposit),
                         allowanceContract |-> swap.allowanceContract,
                         rate |-> "1",
                         buyAmountBeforeFeesCryptoBaseUnit |->
                             input.sellAmountIncludingProtocolFeesCryptoBaseUnit,
                         buyAmountAfterFeesCryptoBaseUnit |->
                             bnOrZero(input.sellAmountIncludingProtocolFeesCryptoBaseUnit
                                      - swap.networkFeeCryptoBaseUnit),
                         sellAmountIncludingProtocolFeesCryptoBaseUnit |->
                             input.sellAmountIncludingProtocolFeesCryptoBaseUnit,
                         feeData |-> [protocolFees |-> {},
                                      networkFeeCryptoBaseUnit |-> swap.networkFeeCryptoBaseUnit],
                         source |-> "ArbitrumBridge"]>>,
            direction |-> IF isDeposit THEN "deposit" ELSE "withdrawal"]]

\* the route answered once the swap is fetched
BridgeQuote(input, swap) ==
    LET isDeposit == input.sellChainId = "ethChainId"
        rate == "1"
        buyAmountBeforeFeesCryptoBaseUnit == input.sellAmountIncludingProtocolFeesCryptoBaseUnit
        buyAmountAfterFeesCryptoBaseUnit == input.sellAmountIncludingProtocolFeesCryptoBaseUnit
    IN  [tag |-> "Ok",
         value |->
           [id |-> "uuid", affiliateBps |-> "0", potentialAffiliateBps |-> "0",
            rate |-> rate,
            steps |-> <<[estimatedExecutionTimeMs |-> estimatedExecutionTimeMs(isDeposit),
                         allowanceContract |-> swap.allowanceContract,
                         rate |-> rate,
                         buyAmountBeforeFeesCryptoBaseUnit |-> buyAmountBeforeFeesCryptoBaseUnit,
                         buyAmountAfterFeesCryptoBaseUnit |-> buyAmountAfterFeesCryptoBaseUnit,
                         sellAmountIncludingProtocolFeesCryptoBaseUnit |->
                             input.sellAmountIncludingProtocolFeesCryptoBaseUnit,
                         feeData |-> [protocolFees |-> {},
                                      networkFeeCryptoBaseUnit |-> swap.networkFeeCryptoBaseUnit],
                         source |-> "ArbitrumBridge"]>>,
            direction |-> IF isDeposit THEN "deposit" ELSE "withdrawal"]]

\* variant: what fetching throws is thrown on
BridgeCatch_Rethrows(input) == [tag |-> "Thrown", cause |-> "err"]

\* the catch clause
BridgeCatch(input) ==
    [tag |-> "Err",
     error |-> [message |-> "[ArbitrumBridge: tradeQuote] - failed to get fee data",
                cause |-> "err",
                code |-> "NetworkFeeEstimationFailed"]]

InitBridge ==
    /\ InitRest
    /\ \E input \in BridgeInputs :
           calc = [fn |-> "getTradeQuote", pc |-> "assertValidTrade", input |-> input,
                   fetched |-> FALSE, result |-> NoResult]

\* getTradeQuote up to the answer of assertValidTrade
GetTradeQuoteAsserts ==
    /\ calc.fn = "getTradeQuote"
    /\ calc.pc = "assertValidTrade"
    /\ calc' =
         IF calc.input.assertion # "Ok"
         THEN [calc EXCEPT !.pc = "returned",
                           !.result = [tag |-> "Err",
                                       error |-> [code |-> calc.input.assertion]]]
         ELSE [calc EXCEPT !.pc = "fetchArbitrumBridgeSwap"]
    /\ UNCHANGED <<quoteVars, featureFlags, inputSellAmount, wallet, execVars, fetch>>

\* getTradeQuote from the call of fetchArbitrumBridgeSwap to its return
GetTradeQuoteFetches ==
    /\ calc.fn = "getTradeQuote"
    /\ calc.pc = "fetchArbitrumBridgeSwap"
    /\ calc' = [calc EXCEPT !.pc = "returned",
                            !.fetched = TRUE,
                            !.result = IF calc.input.swap.threw
                                       THEN BridgeCatch(calc.input)
                                       ELSE BridgeQuote(calc.input, calc.input.swap)]
    /\ UNCHANGED <<quoteVars, featureFlags, inputSellAmount, wallet, execVars, fetch>>

NextBridge == GetTradeQuoteAsserts \/ GetTradeQuoteFetches

SpecBridge == InitBridge /\ [][NextBridge]_vars

BridgeReturned == calc.fn = "getTradeQuote" /\ calc.pc = "returned"

BridgeAssertionFailed ==
    /\ BridgeReturned
    /\ calc.input.assertion = "UnsupportedTradePair"
    /\ ~calc.fetched
    /\ calc.result.tag = "Err"

-----------------------------------------------------------------------------
(* Claims on the promise of executeTrade *)

\* C31: every invocation of executeTrade that set its hop pending eventually
\* resolves its promise with the hop Complete or Failed, unless its polling
\* was cancelled; also when a step before exec* fails.
C31_PromiseEventuallyResolved ==
    \A h \in HopIndexes :
        (run[h].pc = "setup") ~>
            \/ run[h].resolved /\ Terminal(h)
            \/ run[h].pc = "cancelled"

\* the promise alone: it is eventually resolved unless the polling was
\* cancelled, whatever state the hop is left in
PromiseEventuallySettled ==
    \A h \in HopIndexes :
        (run[h].pc = "setup") ~> (run[h].resolved \/ run[h].pc = "cancelled")

-----------------------------------------------------------------------------
(* executeTrade with a missing input *)

\* executeTrade throws before the promise is built: nothing is dispatched
ExecuteTradeThrows(hopIndex) ==
    /\ run[hopIndex].pc \in {"none", "done", "rejected", "cancelled"}
    /\ hook[hopIndex].mounted
    /\ HookRenders(hopIndex)
    /\ MissingInput(hopIndex) # ""
    /\ run' = [run EXCEPT ![hopIndex].threw = MissingInput(hopIndex)]
    /\ UNCHANGED <<quoteVars, inputVars, tradeExecution, hook, fetch>>

\* the hook renders again with another wallet, account metadata or account id
HookInputsChange(hopIndex) ==
    /\ hook[hopIndex].mounted
    /\ \E w \in BOOLEAN, a \in BOOLEAN, i \in BOOLEAN :
           hook' = [hook EXCEPT ![hopIndex].wallet = w,
                                ![hopIndex].accountMetadata = a,
                                ![hopIndex].sellAssetAccountId = i]
    /\ UNCHANGED <<quoteVars, inputVars, tradeExecution, run, fetch>>

NextGuard ==
    \/ ExecuteTrade(0)
    \/ ExecuteTradeThrows(0)
    \/ RunStep(0)
    \/ HookInputsChange(0)
    \/ ClearSelect
    \/ ReleaseConfirmedRoute

SpecGuard == InitExec /\ [][NextGuard]_vars

\* one of the five inputs of executeTrade is missing
InputMissing(h) ==
    \/ ~hook[h].wallet
    \/ ~hook[h].accountMetadata
    \/ ~hook[h].sellAssetAccountId
    \/ selectActiveQuote = NoQuote
    \/ selectActiveSwapperName = ""

\* no execution of hop h is in flight
Callable(h) == run[h].pc \in {"none", "done", "rejected", "cancelled"}

\* C32: executeTrade called with the wallet, the account metadata, the active
\* quote, the swapper name or the sell account id missing throws at once and
\* leaves the hop execution state as it was: the hop is not set pending and
\* no execution is started.
C32_MissingInputThrows ==
    [][\A h \in HopIndexes :
          (InputMissing(h) /\ Callable(h) /\ run'[h] # run[h]) =>
              /\ run'[h].threw # ""
              /\ run'[h] = [run[h] EXCEPT !.threw = run'[h].threw]
              /\ tradeExecution' = tradeExecution]_vars

\* C32 witness: hop 0 is Complete, the wallet is gone, and executeTrade threw
\* 'missing wallet' with the hop still Complete.
C32_Witness ==
    /\ tradeExecution[0].state = "Complete"
    /\ ~hook[0].wallet
    /\ run[0].pc = "done"
    /\ run[0].threw = "missing wallet"

\* the other errors are thrown as well
ThrowsAccountId == run[0].threw = "missing sellAssetAccountId"
ThrowsSwapperName == run[0].threw = "missing swapperName" /\ confirmedQuote # NoQuote
ThrowsTradeQuote == run[0].threw = "missing tradeQuote"

-----------------------------------------------------------------------------
(* Completion and the transaction hashes of an invocation *)

\* an event that can carry a hash was handled in the current invocation
HashEventHandled(h) ==
    \E i \in 1..Len(run[h].log) : run[h].log[i] \in {"SellTxHash", "Status"}

\* C33: a hop is Complete only if a transaction hash (of SellTxHash, or the
\* buyTxHash of a Status) was received in the invocation that completed it;
\* after a Success handled without any hash the promise is resolved and the
\* hop is neither Complete nor Failed.
C33_CompleteOnlyWithHash ==
    \A h \in HopIndexes :
        /\ tradeExecution[h].state = "Complete" =>
               /\ run[h].txHash \in {"sellTx", "buyTx"}
               /\ HashEventHandled(h)
               /\ run[h].last.type = "Success"
        /\ (run[h].last.type = "Success" /\ run[h].txHash = "") =>
               /\ run[h].resolved
               /\ tradeExecution[h].state = "Pending"

\* C33 witness: hop 0 completed on the buy hash of a Status; Success of hop 1
\* came after a SellTxHash without a hash and left the hop pending.
C33_Witness ==
    /\ tradeExecution[0].state = "Complete"
    /\ run[0].txHash = "buyTx"
    /\ run[1].log = <<"SellTxHash", "Success">>
    /\ run[1].txHash = ""
    /\ run[1].resolved
    /\ tradeExecution[1].state = "Pending"

-----------------------------------------------------------------------------
(* The active quote and the response it comes from *)

\* an undefined list of errors or warnings
Undefined == {"undefined"}

selectActiveQuoteErrors ==
    IF selectActiveSwapperApiResponse = NoApiQuote THEN Undefined
    ELSE selectActiveSwapperApiResponse.errors

selectActiveQuoteWarnings ==
    IF selectActiveSwapperApiResponse = NoApiQuote THEN Undefined
    ELSE selectActiveSwapperApiResponse.warnings

\* C34: with no confirmed quote, an active quote is the quote of the entry
\* tradeQuotes holds under the swapper and identifier of the effective
\* selection; without an effective selection the active quote, the active
\* swapper name and the active errors and warnings are all undefined,
\* whatever tradeQuotes holds.
C34_ActiveQuoteIsHeld ==
    LET meta == selectActiveQuoteMetaOrDefault
    IN  confirmedQuote = NoQuote =>
            /\ selectActiveQuote # NoQuote =>
                   /\ meta # NoMeta
                   /\ meta.swapperName \in DOMAIN tradeQuotes
                   /\ \E a \in tradeQuotes[meta.swapperName] :
                          /\ a.id = meta.identifier
                          /\ a.quote = selectActiveQuote
                   /\ selectActiveSwapperName = meta.swapperName
            /\ meta = NoMeta =>
                   /\ selectActiveQuote = NoQuote
                   /\ selectActiveSwapperName = ""
                   /\ selectActiveQuoteErrors = Undefined
                   /\ selectActiveQuoteWarnings = Undefined

\* C34 witness: no confirmed quote and no selection, while tradeQuotes holds a
\* response (of errors only): nothing is active.
C34_Witness ==
    /\ confirmedQuote = NoQuote
    /\ selectActiveQuoteMetaOrDefault = NoMeta
    /\ AllApiQuotes(tradeQuotes) # {}
    /\ selectActiveQuote = NoQuote
    /\ selectActiveQuoteErrors = Undefined

\* the other case: an active quote held under the pinned selection, which is
\* not the top of the ranking
ActiveQuoteHeldUnderPin ==
    /\ confirmedQuote = NoQuote
    /\ activeQuoteMeta # NoMeta
    /\ selectActiveQuote # NoQuote
    /\ selectActiveQuote.id = activeQuoteMeta.identifier
    /\ selectSortedTradeQuotes[1].id # activeQuoteMeta.identifier

-----------------------------------------------------------------------------
(* Loading state of the quotes *)

selectHasUserEnteredAmount == bnOrZero(inputSellAmount) > 0

\* the swappers whose query is pending
selectIsTradeQuoteApiQueryPending == [s \in Swappers |-> s \in fetch.pending]

\* the swappers an entry of the display cache belongs to
selectTradeQuoteDisplayCache == fetch.displayCache

\* variant: the display cache is not looked at
selectLoadingSwappers_NoCache ==
    {swapperName \in DOMAIN selectIsSwapperResponseAvailable :
        \/ ~selectIsSwapperResponseAvailable[swapperName]
        \/ selectIsTradeQuoteApiQueryPending[swapperName]}

selectLoadingSwappers ==
    {swapperName \in DOMAIN selectIsSwapperResponseAvailable :
        /\ \/ ~selectIsSwapperResponseAvailable[swapperName]
           \/ selectIsTradeQuoteApiQueryPending[swapperName]
        /\ ~(\E quoteData \in selectTradeQuoteDisplayCache : quoteData = swapperName)}

\* variant: the entered amount is not looked at
selectIsAnyTradeQuoteLoading_IgnoresAmount == selectLoadingSwappers # {}

selectIsAnyTradeQuoteLoading ==
    selectHasUserEnteredAmount /\ selectLoadingSwappers # {}

selectIsAnyTradeQuoteLoaded ==
    \/ ~selectHasUserEnteredAmount
    \/ \E s \in DOMAIN selectIsSwapperQuoteAvailable : selectIsSwapperQuoteAvailable[s]

\* what a query answers: nothing, one quote, or one error
LoadingResponsesOf(s) ==
    {{},
     {ApiQuote(s, "q1", TradeQuote(s, "q1", 1, 0, 1, 1), {})},
     {ApiQuote(s, "e1", NoQuote, {"UnsupportedTradePair"})}}

InitLoading ==
    /\ tradeQuotes = <<>>
    /\ activeQuoteMeta = NoMeta
    /\ confirmedQuote = NoQuote
    /\ featureFlags = Swappers
    /\ inputSellAmount = 0
    /\ tradeExecution = [h \in 0..1 |-> NoHop]
    /\ run = [h \in 0..1 |-> NoRun]
    /\ hook = [h \in 0..1 |-> NoHook]
    /\ fetch = NoFetch
    /\ wallet \in Wallets
    /\ calc = NoCalc

\* the query of an enabled swapper starts, the first time or again (two of
\* the swappers are asked, the others stay without a response)
QueryStarts ==
    /\ selectHasUserEnteredAmount
    /\ \E s \in (featureFlags \cap SelectSwappers) \ fetch.pending :
           fetch' = [fetch EXCEPT !.pending = @ \cup {s}]
    /\ UNCHANGED <<quoteVars, inputVars, execVars>>

\* a pending query answers and its response is recorded
QueryAnswers ==
    /\ \E s \in fetch.pending : \E r \in LoadingResponsesOf(s) :
           /\ upsertTradeQuotes(s, r)
           /\ fetch' = [fetch EXCEPT !.pending = @ \ {s}]
    /\ UNCHANGED <<inputVars, execVars>>

\* the display cache takes or drops the entries of a swapper
UpdateTradeQuoteDisplayCache ==
    /\ \E s \in SelectSwappers :
           fetch' = [fetch EXCEPT !.displayCache =
                        IF s \in @ THEN @ \ {s} ELSE @ \cup {s}]
    /\ UNCHANGED <<quoteVars, inputVars, execVars>>

NextLoading ==
    \/ QueryStarts
    \/ QueryAnswers
    \/ UpdateTradeQuoteDisplayCache
    \/ SetFeatureFlag
    \/ SetSellAmount

SpecLoading == InitLoading /\ [][NextLoading]_vars

\* C35: with a sell amount of zero or none, the request errors and the
\* response errors are empty, no quote is reported as loading and the quotes
\* are reported as loaded, whatever the wallet and tradeQuotes hold.
C35_NoAmountNothingReported ==
    inputSellAmount <= 0 =>
        /\ selectTradeQuoteRequestErrors = <<>>
        /\ selectTradeQuoteResponseErrors = {}
        /\ ~selectIsAnyTradeQuoteLoading
        /\ selectIsAnyTradeQuoteLoaded

\* C35 witness: no amount and the wallet disconnected, while a late answer
\* without an entry is recorded and another enabled swapper has no response.
C35_Witness ==
    /\ inputSellAmount = 0
    /\ ~wallet.isWalletConnected
    /\ \E s \in featureFlags : s \in DOMAIN tradeQuotes /\ tradeQuotes[s] = {}
    /\ selectLoadingSwappers # {}
    /\ ~selectIsAnyTradeQuoteLoading
    /\ selectIsAnyTradeQuoteLoaded

\* C38: a swapper is reported as loading exactly when it is enabled, it has
\* no recorded response or its query is pending, and no entry of the display
\* cache belongs to it.
C38_LoadingSwappers ==
    \A s \in Swappers :
        s \in selectLoadingSwappers <=>
            /\ s \in featureFlags
            /\ s \notin DOMAIN tradeQuotes \/ s \in fetch.pending
            /\ s \notin fetch.displayCache

\* C38 witness: a swapper that delivered a quote, is displayed and is being
\* asked again is not loading, while the other, never answered, is.
C38_Witness ==
    \E s \in Swappers, t \in Swappers :
        /\ s # t
        /\ s \in DOMAIN tradeQuotes
        /\ \E a \in tradeQuotes[s] : a.quote # NoQuote
        /\ s \in fetch.pending
        /\ s \in fetch.displayCache
        /\ s \notin selectLoadingSwappers
        /\ t \in selectLoadingSwappers

-----------------------------------------------------------------------------
(* The active step *)

\* the active step is counted up to MaxStep
MaxStep == 2

\* tradeQuote.activeStep ?? 0 (-1: undefined)
selectActiveStepOrDefault == IF calc.activeStep < 0 THEN 0 ELSE calc.activeStep

\* variant: the step is compared with the number of steps
selectIsLastStep_Length ==
    /\ selectActiveQuote # NoQuote
    /\ selectActiveQuote.nSteps = selectActiveStepOrDefault

selectIsLastStep ==
    /\ selectActiveQuote # NoQuote
    /\ selectActiveQuote.nSteps - 1 = selectActiveStepOrDefault

InitStep ==
    /\ tradeQuotes = <<>>
    /\ activeQuoteMeta = NoMeta
    /\ confirmedQuote = NoQuote
    /\ featureFlags = Swappers
    /\ inputSellAmount = 1
    /\ tradeExecution = [h \in 0..1 |-> NoHop]
    /\ run = [h \in 0..1 |-> NoRun]
    /\ hook = [h \in 0..1 |-> NoHook]
    /\ fetch = NoFetch
    /\ wallet = ReadyWallet
    /\ calc = [fn |-> "activeStep", activeStep |-> -1]

\* a swapper answers a quote of one or two steps
UpsertStep ==
    /\ \E s \in SelectSwappers, n \in {1, 2} :
           upsertTradeQuotes(s, {ApiQuote(s, "q1", TradeQuote(s, "q1", 1, 0, 1, n), {})})
    /\ UNCHANGED <<inputVars, execVars, fetch>>

\* the trade moves on to the next step
IncrementStep ==
    /\ calc.fn = "activeStep"
    /\ selectActiveStepOrDefault < MaxStep
    /\ calc' = [calc EXCEPT !.activeStep = selectActiveStepOrDefault + 1]
    /\ UNCHANGED <<quoteVars, featureFlags, inputSellAmount, wallet, execVars, fetch>>

\* the active step is reset
ResetActiveStep ==
    /\ calc.fn = "activeStep"
    /\ calc.activeStep >= 0
    /\ calc' = [calc EXCEPT !.activeStep = -1]
    /\ UNCHANGED <<quoteVars, featureFlags, inputSellAmount, wallet, execVars, fetch>>

NextStep ==
    \/ UpsertStep
    \/ ClearSelect
    \/ ConfirmRoute
    \/ ReleaseConfirmedRoute
    \/ IncrementStep
    \/ ResetActiveStep

SpecStep == InitStep /\ [][NextStep]_vars

\* C36: selectIsLastStep is true exactly when an active quote exists and the
\* active step (0 when unset) is its number of steps minus one: at step 0 for
\* one step, only at step 1 for two steps, never without an active quote.
C36_LastStep ==
    LET quote == IF confirmedQuote # NoQuote THEN confirmedQuote
                 ELSE selectActiveSwapperApiResponse.quote
    IN  /\ quote = NoQuote => ~selectIsLastStep
        /\ (quote # NoQuote /\ quote.nSteps = 1) =>
               (selectIsLastStep <=> calc.activeStep \in {-1, 0})
        /\ (quote # NoQuote /\ quote.nSteps = 2) =>
               (selectIsLastStep <=> calc.activeStep = 1)

\* C36 witness: the confirmed quote has two steps and the active step is 1.
C36_Witness ==
    /\ confirmedQuote # NoQuote
    /\ confirmedQuote.nSteps = 2
    /\ calc.activeStep = 1
    /\ selectIsLastStep

\* the default: one step, the active step unset
LastStepByDefault ==
    /\ selectActiveQuote # NoQuote
    /\ selectActiveQuote.nSteps = 1
    /\ calc.activeStep = -1
    /\ selectIsLastStep

-----------------------------------------------------------------------------
(* The network fee that has to be covered by the balance *)

\* variant: every swapper's network fee requires balance
selectNetworkFeeRequiresBalance_Always == TRUE

selectNetworkFeeRequiresBalance == selectActiveSwapperName # "CowSwap"

\* the body shared by the selectors of the first, second and last hop;
\* fromBaseUnit answers the decimal as a string
HopNetworkFeeCryptoPrecision(present, hop) ==
    IF selectNetworkFeeRequiresBalance /\ present /\ hop.feeAssetKnown
    THEN toString(fromBaseUnit(bnOrZero(hop.networkFeeCryptoBaseUnit), hop.precision))
    ELSE bn(0)

\* the last hop of the quote: steps[steps.length - 1]
selectLastHopOfFees == IF calc.in.nSteps = 2 THEN calc.in.second ELSE calc.in.first

selectFirstHopNetworkFeeCryptoPrecision ==
    HopNetworkFeeCryptoPrecision(calc.in.nSteps >= 1, calc.in.first)

selectSecondHopNetworkFeeCryptoPrecision ==
    HopNetworkFeeCryptoPrecision(calc.in.nSteps >= 2, calc.in.second)

selectLastHopNetworkFeeCryptoPrecision ==
    HopNetworkFeeCryptoPrecision(calc.in.nSteps >= 1, selectLastHopOfFees)

\* the quotes whose fees are read: the market data plays no part
FeeBalanceInputs == {in \in FeeInputs : in.first.price = -1 /\ in.second.price = -1}

\* the active quote of a swapper, or a quote that is only confirmed ("")
InitFeeBalance ==
    /\ \E in \in FeeBalanceInputs, s \in {"", "CowSwap", "Thorchain"} :
           /\ s # "" => in.nSteps >= 1
           /\ calc = [fn |-> "networkFee", in |-> in, done |-> FALSE]
           /\ tradeQuotes =
                  IF s = "" THEN <<>>
                  ELSE [x \in {s} |->
                           {ApiQuote(s, "q1", TradeQuote(s, "q1", 1, 0, 1, in.nSteps), {})}]
           /\ confirmedQuote =
                  IF s = "" /\ in.nSteps >= 1
                  THEN TradeQuote("Thorchain", "q1", 1, 0, 1, in.nSteps)
                  ELSE NoQuote
    /\ activeQuoteMeta = NoMeta
    /\ featureFlags = Swappers
    /\ inputSellAmount = 1
    /\ tradeExecution = [h \in 0..1 |-> NoHop]
    /\ run = [h \in 0..1 |-> NoRun]
    /\ hook = [h \in 0..1 |-> NoHook]
    /\ fetch = NoFetch
    /\ wallet = ReadyWallet

\* the selectors are evaluated on the quote
ComputeNetworkFees ==
    /\ calc.fn = "networkFee"
    /\ ~calc.done
    /\ calc' = [fn |-> "networkFee", in |-> calc.in, done |-> TRUE,
                out |-> [first |-> selectFirstHopNetworkFeeCryptoPrecision,
                         second |-> selectSecondHopNetworkFeeCryptoPrecision,
                         last |-> selectLastHopNetworkFeeCryptoPrecision]]
    /\ UNCHANGED <<quoteVars, featureFlags, inputSellAmount, wallet, execVars, fetch>>

SpecFeeBalance == InitFeeBalance /\ [][ComputeNetworkFees]_vars

\* the fee of a hop in crypto precision, or "0" without a known fee asset
IsFeeOf(out, present, hop) ==
    IF present /\ hop.feeAssetKnown
    THEN /\ out.num * Pow10(hop.precision)
                = (IF hop.networkFeeCryptoBaseUnit < 0 THEN 0
                   ELSE hop.networkFeeCryptoBaseUnit) * out.den
         /\ out.den > 0
         /\ out = toString(out)
    ELSE out = bn(0)

\* C37: the network fees of the first, second and last hop in crypto
\* precision are "0" when the active swapper is CowSwap, whatever the fee
\* data; with another or no active swapper they are the hop's network fee
\* converted by the precision of its fee asset, and "0" when that asset is
\* unknown.
C37_FeeRequiresBalance ==
    (calc.fn = "networkFee" /\ calc.done) =>
        IF selectActiveSwapperName = "CowSwap"
        THEN /\ calc.out.first = bn(0)
             /\ calc.out.second = bn(0)
             /\ calc.out.last = bn(0)
        ELSE /\ IsFeeOf(calc.out.first, calc.in.nSteps >= 1, calc.in.first)
             /\ IsFeeOf(calc.out.second, calc.in.nSteps >= 2, calc.in.second)
             /\ IsFeeOf(calc.out.last, calc.in.nSteps >= 1,
                        IF calc.in.nSteps = 2 THEN calc.in.second ELSE calc.in.first)

\* C37 witness: CowSwap is active and the first hop has a network fee on a
\* known fee asset: the fee to cover is "0".
C37_Witness ==
    /\ calc.fn = "networkFee" /\ calc.done
    /\ selectActiveSwapperName = "CowSwap"
    /\ calc.in.first.feeAssetKnown
    /\ calc.in.first.networkFeeCryptoBaseUnit = MaxFee
    /\ calc.out.first = bn(0)
    /\ calc.out.last = bn(0)

\* the other cases: another swapper, and no active swapper, with a fee of
\* 0.1 on the last of two hops
FeeOfOtherSwapper ==
    /\ calc.fn = "networkFee" /\ calc.done
    /\ selectActiveSwapperName = "Thorchain"
    /\ calc.in.nSteps = 2
    /\ calc.out.first = bn(0)
    /\ calc.out.second = [num |-> 1, den |-> 10]
    /\ calc.out.last = [num |-> 1, den |-> 10]

FeeWithoutSwapper ==
    /\ calc.fn = "networkFee" /\ calc.done
    /\ selectActiveSwapperName = ""
    /\ calc.out.first = [num |-> 1, den |-> 10]

-----------------------------------------------------------------------------
(* Direction and duration of a bridge quote *)

\* C39: a quote of the Arbitrum bridge is a 'deposit' estimated at 15
\* minutes exactly when the sell asset is on Ethereum mainnet, and a
\* 'withdrawal' estimated at 7 days otherwise.
C39_DirectionAndDuration ==
    (BridgeReturned /\ calc.result.tag = "Ok") =>
        LET quote == calc.result.value
            onMainnet == calc.input.sellChainId = "ethChainId"
        IN  /\ quote.direction \in {"deposit", "withdrawal"}
            /\ quote.direction = "deposit" <=> onMainnet
            /\ quote.steps[1].estimatedExecutionTimeMs = 900000 <=> onMainnet
            /\ quote.steps[1].estimatedExecutionTimeMs = 604800000 <=> ~onMainnet
            /\ quote.direction = "deposit"
                   <=> quote.steps[1].estimatedExecutionTimeMs = 900000

\* C39 witness: a quote sold from Arbitrum is a withdrawal of 7 days.
C39_Witness ==
    /\ BridgeReturned
    /\ calc.result.tag = "Ok"
    /\ calc.input.sellChainId = "arbitrumChainId"
    /\ calc.result.value.direction = "withdrawal"
    /\ calc.result.value.steps[1].estimatedExecutionTimeMs = 604800000

\* the other direction
BridgeDeposit ==
    /\ BridgeReturned
    /\ calc.result.tag = "Ok"
    /\ calc.input.sellChainId = "ethChainId"
    /\ calc.result.value.direction = "deposit"
    /\ calc.result.value.steps[1].estimatedExecutionTimeMs = 900000

====
